---- MODULE Spec2Model ----
(***************************************************************************)
(* Model of siborg.create.human.human.Human: the export of the MakeHuman   *)
(* provider state (modifiers, proxies, meshes) to a USD prim tree and the  *)
(* import of a prim's custom data back into the provider.                  *)
(*                                                                         *)
(* Strings that are used as custom-data keys are sequences of tokens: the  *)
(* string "a:b" is <<"a", "b">>, so that "x" + ":" + "y" is x \o y and the *)
(* split on ":" that SetCustomDataByKey performs is the sequence itself.   *)
(* The value None is the empty sequence (no string has zero tokens).       *)
(* Custom-data values are tagged: <<"bool", b>>, <<"num", n>>,             *)
(* <<"str", s>>, <<"dict">> (an empty dictionary), <<"dict", d>>.          *)
(* A dictionary is the function from the key paths of its leaves to their  *)
(* values. Modifier values are in tenths (0.7 is 7).                       *)
(***************************************************************************)
EXTENDS Naturals, Integers, Sequences, FiniteSets, TLC

VARIABLES
    modifiers,   \* MHCaller.modifiers: fullName -> value
    proxies,     \* MHCaller.proxies: list of [name, type, file]
    objects,     \* MHCaller.objects: list of meshes
    customData,  \* stage: human prim path -> custom-data dictionary
    meshPrims,   \* stage: <<human prim path, child name>> -> mesh prim
    skeletons,   \* stage: human prims the skeleton was added under
    calls,       \* calls made by the last write_properties / set_prim
    error,       \* exception raised by the last write_properties / set_prim
    returned,    \* return value of the last import_meshes
                 \* (the three are forgotten when the provider changes)
    hist,        \* history: the last operation on the properties and on
                 \* the meshes, their prims, and the provider state exported
    edits        \* number of changes made to the provider so far

vars == <<modifiers, proxies, objects, customData, meshPrims, skeletons,
          calls, error, returned, hist, edits>>

(***************************************************************************)
(* Bounds and input sets                                                   *)
(***************************************************************************)
MaxProxies == 2
MaxHumans == 1
MaxFaces == 2
MaxObjects == 2
MaxEdits == 2

None == <<>>
EmptyDict == <<"dict">>
Bool(b) == <<"bool", b>>
Num(n) == <<"num", n>>
Str(s) == <<"str", s>>
Dict(d) == <<"dict", d>>
NoValue == <<"none">>
EmptyMap == [q \in {} |-> NoValue]

ModNames == {<<"head/head-age-old">>, <<"macrodetails/Age">>}
ModOrder == <<<<"head/head-age-old">>, <<"macrodetails/Age">>>>
ModValues == {5, 7}
\* The modifiers the provider holds after the reset: none, one, or both.
LoadedModifiers ==
    { EmptyMap,
      [m \in {<<"head/head-age-old">>} |-> 7],
      [m \in ModNames |-> 5] }

ProxyPool ==
    { [name |-> <<"tshirt">>, type |-> <<"clothes">>, file |-> "tshirt.mhclo"],
      [name |-> <<"tshirt">>, type |-> <<"clothes">>, file |-> "tshirt_red.mhclo"],
      [name |-> <<"tshirt", "v2">>, type |-> <<"clothes">>, file |-> "tshirt_v2.mhclo"],
      [name |-> <<"low-poly">>, type |-> <<"eyes">>, file |-> "low-poly.mhpxy"],
      [name |-> <<"body">>, type |-> None, file |-> "body.proxy"],
      [name |-> <<"body">>, type |-> <<"">>, file |-> "body_b.proxy"],
      [name |-> <<"body">>, type |-> <<"proxymeshes">>, file |-> "female.proxy"] }

\* Prim paths that omni.usd.get_stage_next_free_path hands out for the name
\* "human" under the default prim /World, in order.
HumanPaths == <<"/World/human", "/World/human_01", "/World/human_02", "/World/human_03">>

\* Custom data a prim may carry before the first export to it.
PriorData ==
    { EmptyMap,
      [q \in {<<"note">>, <<"Modifiers", "macrodetails/Age">>, <<"Proxies">>} |->
          IF q = <<"note">> THEN Str("kept")
          ELSE IF q = <<"Proxies">> THEN EmptyDict ELSE Num(5)] }

\* Iteration order of a VtDictionary's keys (std::map, byte order).
TokenOrder == <<"Modifiers", "Proxies", "body", "clothes", "eyes",
                "head/head-age-old", "human", "low-poly", "macrodetails/Age",
                "note", "proxymeshes", "tshirt", "v2">>

(***************************************************************************)
(* The custom-data dictionary of a prim                                    *)
(***************************************************************************)
IsPrefix(a, b) == Len(a) <= Len(b) /\ SubSeq(b, 1, Len(a)) = a

\* prim.SetCustomDataByKey(key, value): the value at the ":"-separated key
\* path; an element on the way that is no dictionary becomes one, and a
\* dictionary at the path is replaced by the value.
SetCustomDataByKey(d, key, value) ==
    LET keep == {q \in DOMAIN d : ~IsPrefix(q, key) /\ ~IsPrefix(key, q)}
    IN  [q \in keep \cup {key} |-> IF q = key THEN value ELSE d[q]]

\* dict.get(k) of a dictionary: None, a leaf value, or the sub-dictionary.
Get(d, k) ==
    IF <<k>> \in DOMAIN d
        THEN (IF d[<<k>>] = EmptyDict THEN Dict(EmptyMap) ELSE d[<<k>>])
    ELSE IF \E q \in DOMAIN d : q[1] = k
        THEN Dict([t \in {Tail(q) : q \in {r \in DOMAIN d : r[1] = k}} |-> d[<<k>> \o t]])
    ELSE NoValue

IsDict(v) == v[1] = "dict"

\* dict.items(): the top-level keys, in iteration order.
Keys(d) == SelectSeq(TokenOrder, LAMBDA k : \E q \in DOMAIN d : q[1] = k)

(***************************************************************************)
(* write_properties                                                        *)
(***************************************************************************)
Truthy(s) == s # None /\ s # <<"">>

SetCall(key, value) == [fn |-> "SetCustomDataByKey", key |-> key, value |-> value]

\* line 229
HumanWrite == SetCall(<<"human">>, Bool(TRUE))

\* Mutant: the loop stops one modifier short.
ModifierWrites_skipsLast(mods) ==
    LET present == SelectSeq(ModOrder, LAMBDA m : m \in DOMAIN mods)
    IN  [i \in 1..(Len(present) - 1) |->
            [fn |-> "SetCustomDataByKey", key |-> <<"Modifiers">> \o present[i],
             value |-> Num(mods[present[i]])]]

\* lines 234-237
ModifierWrites(mods) ==
    LET present == SelectSeq(ModOrder, LAMBDA m : m \in DOMAIN mods)
    IN  [i \in 1..Len(present) |->
            SetCall(<<"Modifiers">> \o present[i], Num(mods[present[i]]))]

\* Mutant: only "clothes" is nested; "proxymeshes" is written as a type key.
ProxyKey_onlyClothes(p) ==
    LET type == IF Truthy(p.type) THEN p.type ELSE <<"proxymeshes">>
    IN  IF type = <<"clothes">>
            THEN <<"Proxies">> \o type \o p.name
            ELSE <<"Proxies">> \o type

\* lines 246-255: the key one proxy is written under
ProxyKey(p) ==
    LET type == IF Truthy(p.type) THEN p.type ELSE <<"proxymeshes">>
    IN  IF type = <<"clothes">> \/ type = <<"proxymeshes">>
            THEN <<"Proxies">> \o type \o p.name
            ELSE <<"Proxies">> \o type

\* lines 242-255
ProxyWrites(prox) ==
    [i \in 1..Len(prox) |-> SetCall(ProxyKey(prox[i]), Str(prox[i].file))]

\* the SetCustomDataByKey calls of write_properties, in order
PropertyWrites(mods, prox) ==
    <<HumanWrite>> \o ModifierWrites(mods) \o ProxyWrites(prox)

RECURSIVE ApplyWrites(_, _)
ApplyWrites(d, ws) ==
    IF ws = <<>> THEN d
    ELSE ApplyWrites(SetCustomDataByKey(d, Head(ws).key, Head(ws).value), Tail(ws))

\* Mutant: the custom data of a prim already marked human is cleared first.
write_properties_clearing(d, mods, prox) ==
    ApplyWrites(IF <<"human">> \in DOMAIN d THEN EmptyMap ELSE d,
                PropertyWrites(mods, prox))

\* the prim's custom data after write_properties
write_properties(d, mods, prox) == ApplyWrites(d, PropertyWrites(mods, prox))

(***************************************************************************)
(* set_prim                                                                *)
(***************************************************************************)
\* Mutant: the assignment skips the dependent modifiers.
SetValueCall_skips(m, v) ==
    [fn |-> "setValue", name |-> m, value |-> v, skipDependencies |-> TRUE]

SetValueCall(m, v) ==
    [fn |-> "setValue", name |-> m, value |-> v, skipDependencies |-> FALSE]

AddProxyCall(path, type) == [fn |-> "add_proxy", path |-> path, type |-> type]

ApplyAllTargetsCall == [fn |-> "applyAllTargets"]

\* lines 270-271: the loop over modifiers.items(); getModifier raises for a
\* name the provider does not hold.
RECURSIVE SetModifiers(_, _, _)
SetModifiers(md, ks, st) ==
    IF ks = <<>> \/ st.error # "none" THEN st
    ELSE LET m == Head(ks)
             v == Get(md, m)
         IN  IF <<m>> \notin DOMAIN st.modifiers
                 THEN [st EXCEPT !.error = "KeyError:modifiers"]
                 ELSE SetModifiers(md, Tail(ks),
                        [st EXCEPT !.calls = Append(@, SetValueCall(<<m>>, v)),
                                   !.modifiers[<<m>>] = v[2]])

\* lines 286-287: the loop over proxies[type].items()
NestedProxies(sub, type) ==
    LET ks == Keys(sub)
    IN  [i \in 1..Len(ks) |-> AddProxyCall(Get(sub, ks[i]), type)]

\* lines 278-287: the loop over proxies.items()
RECURSIVE AddProxies(_, _, _)
AddProxies(pd, ks, st) ==
    IF ks = <<>> \/ st.error # "none" THEN st
    ELSE LET type == Head(ks)
             path == Get(pd, type)
         IN  IF type # "proxymeshes" /\ type # "clothes"
                 THEN AddProxies(pd, Tail(ks),
                        [st EXCEPT !.calls = Append(@, AddProxyCall(path, type))])
             ELSE IF ~IsDict(path)
                 THEN [st EXCEPT !.error = "AttributeError:proxies"]
             ELSE AddProxies(pd, Tail(ks),
                        [st EXCEPT !.calls = @ \o NestedProxies(path[2], type)])

\* Mutant: no "if proxies:" guard, so None.items() raises.
ProxiesPart_unguarded(humandata, st) ==
    LET prx == Get(humandata, "Proxies")
    IN  IF st.error # "none" THEN st
        ELSE IF ~IsDict(prx) THEN [st EXCEPT !.error = "AttributeError:proxies"]
        ELSE AddProxies(prx[2], Keys(prx[2]), st)

\* lines 274-287: "if proxies:" skips None and the empty dictionary
ProxiesPart(humandata, st) ==
    LET prx == Get(humandata, "Proxies")
    IN  IF st.error # "none" THEN st
        ELSE IF prx = NoValue THEN st
        ELSE IF IsDict(prx) /\ DOMAIN prx[2] = {} THEN st
        ELSE IF ~IsDict(prx) THEN [st EXCEPT !.error = "AttributeError:proxies"]
        ELSE AddProxies(prx[2], Keys(prx[2]), st)

\* lines 269-271: modifiers.items() of None (no "Modifiers" entry) raises
ModifiersPart(humandata, st) ==
    LET mds == Get(humandata, "Modifiers")
    IN  IF ~IsDict(mds) THEN [st EXCEPT !.error = "AttributeError:modifiers"]
        ELSE SetModifiers(mds[2], Keys(mds[2]), st)

\* line 292
TargetsPart(st) ==
    IF st.error # "none" THEN st
    ELSE [st EXCEPT !.calls = Append(@, ApplyAllTargetsCall)]

\* set_prim on a prim with custom data humandata: the calls made into the
\* provider, the provider's modifier values afterwards, the exception raised
set_prim(humandata, mods) ==
    TargetsPart(ProxiesPart(humandata,
        ModifiersPart(humandata, [calls |-> <<>>, modifiers |-> mods, error |-> "none"])))

(***************************************************************************)
(* import_meshes                                                           *)
(***************************************************************************)
MeshNames == {"human", "t-shirt"}
Offsets == {<<0, 0, 0>>, <<1, 0, 0>>}

\* A strip of MaxFaces quads: consecutive faces share two vertices and one
\* UV index. Vertex and UV indices count from 0, as in the arrays of the mesh.
StripMesh(name, mask) ==
    [ name |-> name,
      vertsPerFaceForExport |-> IF name = "human" THEN 4 ELSE 3,
      coords |-> [v \in 1..(2 * MaxFaces + 2) |-> <<v - 1, 2 * (v - 1), 0>>],
      normals |-> [v \in 1..(2 * MaxFaces + 2) |-> <<0, 0, 1>>],
      fvert |-> [f \in 1..MaxFaces |-> <<2 * f - 2, 2 * f - 1, 2 * f + 1, 2 * f>>],
      fuvs |-> [f \in 1..MaxFaces |-> <<3 * f - 3, 3 * f - 2, 3 * f - 1, 3 * f>>],
      texco |-> [k \in 1..(3 * MaxFaces + 1) |-> <<k - 1, 0>>],
      face_mask |-> mask ]


\* shared.sanitize: maps a mesh name to a legal prim name, one per mesh name
sanitize(name) == IF name = "t-shirt" THEN "t_shirt" ELSE name

\* Mutant: the face mask is not consulted.
PrunedIndices_ignoresMask(rows, mask, nPerFace, fn) ==
    [k \in 1..(nPerFace * (Len(rows) - fn + 1)) |->
        rows[fn + ((k - 1) \div nPerFace)][((k - 1) % nPerFace) + 1]]

\* lines 123-131: the vertex (or UV) indices of the faces the mask keeps,
\* nPerFace of each face, in face order
RECURSIVE PrunedIndices(_, _, _, _)
PrunedIndices(rows, mask, nPerFace, fn) ==
    IF fn > Len(rows) THEN <<>>
    ELSE IF ~mask[fn] THEN PrunedIndices(rows, mask, nPerFace, fn + 1)
    ELSE [n \in 1..nPerFace |-> rows[fn][n]]
            \o PrunedIndices(rows, mask, nPerFace, fn + 1)

\* line 122: mesh.getCoords() + offset
OffsetCoords(coords, offset) ==
    [v \in 1..Len(coords) |->
        <<coords[v][1] + offset[1], coords[v][2] + offset[2], coords[v][3] + offset[3]>>]

\* mesh.getUVs(indices)
getUVs(mesh, indices) == [k \in 1..Len(indices) |-> mesh.texco[indices[k] + 1]]

\* lines 149, 177: [nPerFace] * int(len(newvertindices) / nPerFace)
FaceCounts(newvertindices, nPerFace) ==
    [f \in 1..(Len(newvertindices) \div nPerFace) |-> nPerFace]

NextPrimId(mp) ==
    1 + Cardinality(DOMAIN mp)

\* Mutant: an existing mesh prim is deleted and defined anew.
ImportMesh_recreates(mp, mesh, prim_path, offset) ==
    LET nPerFace == mesh.vertsPerFaceForExport
        newvertindices == PrunedIndices(mesh.fvert, mesh.face_mask, nPerFace, 1)
        newuvindices == PrunedIndices(mesh.fuvs, mesh.face_mask, nPerFace, 1)
        coords == OffsetCoords(mesh.coords, offset)
        usd_mesh_path == <<prim_path, sanitize(mesh.name)>>
        geom == [ points |-> coords,
                  faceVertexCounts |-> FaceCounts(newvertindices, nPerFace),
                  faceVertexIndices |-> newvertindices,
                  normals |-> mesh.normals,
                  st |-> getUVs(mesh, newuvindices),
                  stInterpolation |-> "faceVarying",
                  subdivisionScheme |-> "none" ]
        prim == [id |-> NextPrimId(mp), normalsInterpolation |-> "vertex"]
    IN  [q \in DOMAIN mp \cup {usd_mesh_path} |->
            IF q = usd_mesh_path
                THEN [ id |-> prim.id,
                       normalsInterpolation |-> prim.normalsInterpolation,
                       points |-> geom.points,
                       faceVertexCounts |-> geom.faceVertexCounts,
                       faceVertexIndices |-> geom.faceVertexIndices,
                       normals |-> geom.normals,
                       st |-> geom.st,
                       stInterpolation |-> geom.stInterpolation,
                       subdivisionScheme |-> geom.subdivisionScheme ]
                ELSE mp[q]]

\* lines 113-206: one mesh of the loop
ImportMesh(mp, mesh, prim_path, offset) ==
    LET nPerFace == mesh.vertsPerFaceForExport
        newvertindices == PrunedIndices(mesh.fvert, mesh.face_mask, nPerFace, 1)
        newuvindices == PrunedIndices(mesh.fuvs, mesh.face_mask, nPerFace, 1)
        coords == OffsetCoords(mesh.coords, offset)
        usd_mesh_path == <<prim_path, sanitize(mesh.name)>>
        geom == [ points |-> coords,
                  faceVertexCounts |-> FaceCounts(newvertindices, nPerFace),
                  faceVertexIndices |-> newvertindices,
                  normals |-> mesh.normals,
                  st |-> getUVs(mesh, newuvindices),
                  stInterpolation |-> "faceVarying",
                  subdivisionScheme |-> "none" ]
        prim == IF usd_mesh_path \in DOMAIN mp
                    THEN [id |-> mp[usd_mesh_path].id,
                          normalsInterpolation |-> mp[usd_mesh_path].normalsInterpolation]
                    ELSE [id |-> NextPrimId(mp), normalsInterpolation |-> "vertex"]
    IN  [q \in DOMAIN mp \cup {usd_mesh_path} |->
            IF q = usd_mesh_path
                THEN [ id |-> prim.id,
                       normalsInterpolation |-> prim.normalsInterpolation,
                       points |-> geom.points,
                       faceVertexCounts |-> geom.faceVertexCounts,
                       faceVertexIndices |-> geom.faceVertexIndices,
                       normals |-> geom.normals,
                       st |-> geom.st,
                       stInterpolation |-> geom.stInterpolation,
                       subdivisionScheme |-> geom.subdivisionScheme ]
                ELSE mp[q]]

\* the mesh prims of the stage after import_meshes
RECURSIVE import_meshes(_, _, _, _)
import_meshes(mp, objs, prim_path, offset) ==
    IF objs = <<>> THEN mp
    ELSE import_meshes(ImportMesh(mp, Head(objs), prim_path, offset),
                       Tail(objs), prim_path, offset)

\* lines 139, 209-211: the paths import_meshes returns
MeshPaths(objs, prim_path) ==
    [i \in 1..Len(objs) |-> <<prim_path, sanitize(objs[i].name)>>]

(***************************************************************************)
(* The operations                                                          *)
(***************************************************************************)
ValidPrims == DOMAIN customData

\* Human.__init__ (MHCaller.reset_human) on a stage with one prim at the
\* human's path
InitProvider ==
    /\ proxies = <<>>
    /\ calls = <<>>
    /\ error = "none"
    /\ returned = <<>>
    /\ meshPrims = [q \in {} |-> 0]
    /\ skeletons = {}
    /\ edits = 0
    /\ hist = [op |-> "init", prim |-> "", fresh |-> FALSE, repeat |-> FALSE,
               M |-> EmptyMap, P |-> <<>>,
               meshOp |-> "init", meshPrim |-> "", offset |-> <<0, 0, 0>>,
               found |-> {}]

Init ==
    /\ InitProvider
    /\ modifiers \in LoadedModifiers
    /\ objects = <<StripMesh("human", [f \in 1..MaxFaces |-> TRUE])>>
    /\ customData \in {[p \in {HumanPaths[1]} |-> d] : d \in PriorData}

MeshInit ==
    /\ InitProvider
    /\ modifiers = [m \in {<<"head/head-age-old">>} |-> 7]
    /\ objects = <<StripMesh("human", [f \in 1..MaxFaces |-> TRUE])>>
    /\ customData = [p \in {} |-> EmptyMap]

\* history: the export repeats the last one (same prim, provider unchanged)
Repeated(prim_path) == hist.op = "write" /\ hist.prim = prim_path

\* history: the mesh prims import_meshes finds under the prim
Found(prim_path) ==
    {q \in DOMAIN meshPrims : q \in {MeshPaths(objects, prim_path)[i] : i \in 1..Len(objects)}}

\* write_properties(prim_path, stage)
WritePropertiesTo(prim_path) ==
    /\ customData' = [p \in DOMAIN customData \cup {prim_path} |->
            IF p = prim_path
                THEN write_properties(IF prim_path \in DOMAIN customData
                                          THEN customData[prim_path] ELSE EmptyMap,
                                      modifiers, proxies)
                ELSE customData[p]]
    /\ calls' = PropertyWrites(modifiers, proxies)
    /\ error' = "none"

ImportMeshesTo(prim_path, offset) ==
    /\ meshPrims' = import_meshes(meshPrims, objects, prim_path, offset)
    /\ returned' = MeshPaths(objects, prim_path)

WriteProperties(prim_path) ==
    /\ prim_path \in ValidPrims
    /\ WritePropertiesTo(prim_path)
    /\ hist' = [hist EXCEPT !.op = "write", !.prim = prim_path,
                            !.fresh = (customData[prim_path] = EmptyMap),
                            !.repeat = Repeated(prim_path),
                            !.M = modifiers, !.P = proxies]
    /\ UNCHANGED <<modifiers, proxies, objects, meshPrims, skeletons, returned, edits>>

ImportMeshes(prim_path, offset) ==
    /\ prim_path \in ValidPrims
    /\ ImportMeshesTo(prim_path, offset)
    /\ hist' = [hist EXCEPT !.meshOp = "import", !.meshPrim = prim_path,
                            !.offset = offset, !.found = Found(prim_path)]
    /\ UNCHANGED <<modifiers, proxies, objects, customData, skeletons, calls,
                   error, edits>>

\* update_in_scene(prim_path)
UpdateInScene(prim_path) ==
    /\ prim_path \in ValidPrims
    /\ WritePropertiesTo(prim_path)
    /\ ImportMeshesTo(prim_path, <<0, 0, 0>>)
    /\ hist' = [op |-> "write", prim |-> prim_path,
                fresh |-> (customData[prim_path] = EmptyMap),
                repeat |-> Repeated(prim_path),
                M |-> modifiers, P |-> proxies,
                meshOp |-> "import", meshPrim |-> prim_path, offset |-> <<0, 0, 0>>,
                found |-> Found(prim_path)]
    /\ UNCHANGED <<modifiers, proxies, objects, skeletons, edits>>

\* omni.usd.get_stage_next_free_path
NextFreePath == HumanPaths[1 + Cardinality(ValidPrims)]

\* add_to_scene()
AddToScene ==
    /\ Cardinality(ValidPrims) < MaxHumans
    /\ LET prim_path == NextFreePath
       IN  /\ WritePropertiesTo(prim_path)
           /\ skeletons' = skeletons \cup {prim_path}
           /\ ImportMeshesTo(prim_path, <<0, 0, 0>>)
           /\ hist' = [op |-> "write", prim |-> prim_path, fresh |-> TRUE,
                       repeat |-> FALSE, M |-> modifiers, P |-> proxies,
                       meshOp |-> "import", meshPrim |-> prim_path,
                       offset |-> <<0, 0, 0>>, found |-> {}]
    /\ UNCHANGED <<modifiers, proxies, objects, edits>>

\* set_prim(usd_prim)
SetPrim(prim_path) ==
    /\ prim_path \in ValidPrims
    /\ LET r == set_prim(customData[prim_path], modifiers)
       IN  /\ modifiers' = r.modifiers
           /\ calls' = r.calls
           /\ error' = r.error
    /\ hist' = [hist EXCEPT
                  !.op = IF hist.op = "write" /\ hist.prim = prim_path
                             THEN "write_set" ELSE "set",
                  !.prim = prim_path]
    /\ UNCHANGED <<proxies, objects, customData, meshPrims, skeletons, returned, edits>>

\* The provider is changed between calls of the adapter.
Edited ==
    /\ edits < MaxEdits
    /\ edits' = edits + 1
    /\ hist' = [hist EXCEPT !.op = "edit", !.repeat = FALSE,
                            !.M = EmptyMap, !.P = <<>>,
                            !.meshOp = "edit", !.found = {}]
    /\ calls' = <<>>
    /\ error' = "none"
    /\ returned' = <<>>
    /\ UNCHANGED <<customData, meshPrims, skeletons>>

SetModifierValue(m, v) ==
    /\ m \in DOMAIN modifiers
    /\ modifiers[m] # v
    /\ modifiers' = [modifiers EXCEPT ![m] = v]
    /\ Edited
    /\ UNCHANGED <<proxies, objects>>

RemoveModifier(m) ==
    /\ m \in DOMAIN modifiers
    /\ modifiers' = [n \in DOMAIN modifiers \ {m} |-> modifiers[n]]
    /\ Edited
    /\ UNCHANGED <<proxies, objects>>

AddProxy(p) ==
    /\ Len(proxies) < MaxProxies
    /\ proxies' = Append(proxies, p)
    /\ Edited
    /\ UNCHANGED <<modifiers, objects>>

RemoveProxy(i) ==
    /\ i \in 1..Len(proxies)
    /\ proxies' = [k \in 1..(Len(proxies) - 1) |->
                      IF k < i THEN proxies[k] ELSE proxies[k + 1]]
    /\ Edited
    /\ UNCHANGED <<modifiers, objects>>

SetFaceMask(i, f) ==
    /\ i \in 1..Len(objects)
    /\ objects' = [objects EXCEPT ![i].face_mask[f] = ~@]
    /\ Edited
    /\ UNCHANGED <<modifiers, proxies>>

AddObject(name) ==
    /\ Len(objects) < MaxObjects
    /\ objects' = Append(objects, StripMesh(name, [f \in 1..MaxFaces |-> TRUE]))
    /\ Edited
    /\ UNCHANGED <<modifiers, proxies>>

RemoveObject ==
    /\ Len(objects) > 1
    /\ objects' = SubSeq(objects, 1, Len(objects) - 1)
    /\ Edited
    /\ UNCHANGED <<modifiers, proxies>>

Paths == {HumanPaths[i] : i \in 1..MaxHumans}

Next ==
    \/ \E p \in Paths : UpdateInScene(p)
    \/ \E p \in Paths : WriteProperties(p)
    \/ \E p \in Paths : SetPrim(p)
    \/ \E m \in ModNames, v \in ModValues : SetModifierValue(m, v)
    \/ \E m \in ModNames : RemoveModifier(m)
    \/ \E p \in ProxyPool : AddProxy(p)
    \/ \E i \in 1..MaxProxies : RemoveProxy(i)

Spec == Init /\ [][Next]_vars

MeshNext ==
    \/ AddToScene
    \/ \E p \in Paths : UpdateInScene(p)
    \/ \E p \in Paths, o \in Offsets : ImportMeshes(p, o)
    \/ \E i \in 1..MaxObjects, f \in 1..MaxFaces : SetFaceMask(i, f)
    \/ \E n \in MeshNames : AddObject(n)
    \/ RemoveObject

MeshSpec == MeshInit /\ [][MeshNext]_vars

(***************************************************************************)
(* Properties                                                              *)
(***************************************************************************)
Exported == hist.op = "write"
Imported == hist.op \in {"set", "write_set"}
\* write_properties against a prim with empty custom data, then set_prim on it
RoundTrip == hist.op = "write_set" /\ hist.fresh

HasKey(d, key) == \E q \in DOMAIN d : IsPrefix(key, q)
Holds(d, key, value) == key \in DOMAIN d /\ d[key] = value

CallsOf(fn) == SelectSeq(calls, LAMBDA c : c.fn = fn)
Range(f) == {f[i] : i \in DOMAIN f}

\* No exported proxy has a ":" in its name.
PlainNames == \A i \in 1..Len(hist.P) : Len(hist.P[i].name) = 1

\* C1: after write_properties, every modifier of the provider is in the
\* prim's custom data under Modifiers:<fullName> with its value, and every
\* proxy under its key with its file (stated for proxy names without ":").
C1_AllExported ==
    (Exported /\ PlainNames) =>
        LET d == customData[hist.prim]
        IN  /\ \A m \in DOMAIN hist.M :
                  Holds(d, <<"Modifiers">> \o m, Num(hist.M[m]))
            /\ \A i \in 1..Len(hist.P) :
                  Holds(d, ProxyKey(hist.P[i]), Str(hist.P[i].file))

\* C2: round trip of the modifiers: set_prim after write_properties to a
\* fresh prim calls setValue exactly once per exported modifier, by its
\* fullName and with the exported value, and for no other name.
C2_ModifierRoundTrip ==
    RoundTrip =>
        LET sv == CallsOf("setValue")
        IN  /\ \A m \in DOMAIN hist.M :
                  /\ Cardinality({i \in 1..Len(sv) : sv[i].name = m}) = 1
                  /\ \A i \in 1..Len(sv) :
                        sv[i].name = m => sv[i].value = Num(hist.M[m])
            /\ \A i \in 1..Len(sv) : sv[i].name \in DOMAIN hist.M

C2_Witness ==
    /\ RoundTrip
    /\ error = "none"
    /\ DOMAIN hist.M = ModNames
    /\ hist.M[<<"head/head-age-old">>] # hist.M[<<"macrodetails/Age">>]
    /\ Len(CallsOf("setValue")) = 2

\* C3: round trip of the proxies: set_prim after write_properties to a
\* fresh prim requests through add_proxy exactly the files of the exported
\* proxies (stated for the calls of set_prim that complete and for proxy
\* names without ":").
C3_ProxyRoundTrip ==
    (RoundTrip /\ error = "none" /\ PlainNames) =>
        {c.path : c \in Range(CallsOf("add_proxy"))}
            = {Str(hist.P[i].file) : i \in 1..Len(hist.P)}

\* C4: write_properties twice in a row on the same prim, the provider
\* unchanged in between: the second call leaves the custom data as the first
\* left it.
C4_WriteIdempotent ==
    [][ (Exported /\ hist'.op = "write" /\ hist'.prim = hist.prim)
            => customData' = customData ]_vars

C4_Witness ==
    /\ Exported
    /\ hist.repeat
    /\ Len(hist.P) = 2
    /\ DOMAIN hist.M # {}
    /\ HasKey(customData[hist.prim], <<"note">>)

\* The key the claim gives for a proxy.
RoutedKey(p) ==
    CASE p.type = <<"clothes">> -> <<"Proxies", "clothes">> \o p.name
      [] p.type = <<"proxymeshes">> -> <<"Proxies", "proxymeshes">> \o p.name
      [] p.type = None \/ p.type = <<"">> -> <<"Proxies", "proxymeshes">> \o p.name
      [] OTHER -> <<"Proxies">> \o p.type

GretaModifiers == [m \in {<<"head/head-age-old">>} |-> 7]
GretaProxies ==
    <<[name |-> <<"tshirt">>, type |-> <<"clothes">>, file |-> "tshirt.mhclo"]>>
GretaCustomData ==
    [q \in {<<"human">>, <<"Modifiers", "head/head-age-old">>,
            <<"Proxies", "clothes", "tshirt">>} |->
        IF q = <<"human">> THEN Bool(TRUE)
        ELSE IF q = <<"Modifiers", "head/head-age-old">> THEN Num(7)
        ELSE Str("tshirt.mhclo")]

\* C5: write_properties writes a proxy of type "clothes" or "proxymeshes"
\* under Proxies:<type>:<name>, a proxy of unset or empty type under
\* Proxies:proxymeshes:<name>, and any other under Proxies:<type>; the
\* example human exported to a fresh prim gives exactly the example data.
C5_ProxyKeyRouting ==
    Exported =>
        /\ Len(calls) = 1 + Cardinality(DOMAIN hist.M) + Len(hist.P)
        /\ \A i \in 1..Len(hist.P) :
              LET c == calls[Len(calls) - Len(hist.P) + i]
              IN  /\ c.key = RoutedKey(hist.P[i])
                  /\ c.value = Str(hist.P[i].file)
        /\ (hist.fresh /\ hist.M = GretaModifiers /\ hist.P = GretaProxies)
              => customData[hist.prim] = GretaCustomData

C5_Witness ==
    /\ Exported
    /\ hist.fresh
    /\ hist.M = GretaModifiers
    /\ hist.P = GretaProxies
    /\ customData[hist.prim] = GretaCustomData

\* C8 as amended: set_prim passes skipDependencies=False with every
\* modifier assignment, so propagation is not deferred; applyAllTargets is
\* called exactly once, as the last call, when set_prim completes, and not
\* at all when it raises.
C8_PropagationNotDeferred ==
    Imported =>
        /\ \A c \in Range(CallsOf("setValue")) : c.skipDependencies = FALSE
        /\ error = "none" =>
              /\ Len(CallsOf("applyAllTargets")) = 1
              /\ calls[Len(calls)].fn = "applyAllTargets"
        /\ error # "none" => Len(CallsOf("applyAllTargets")) = 0

C8_Witness ==
    /\ Imported
    /\ error = "none"
    /\ Len(CallsOf("setValue")) = 2
    /\ Len(CallsOf("add_proxy")) >= 1

\* C8 as stated: every modifier assignment of set_prim is made with the
\* skip-dependency-propagation flag set.
C8_PropagationDeferred ==
    Imported =>
        \A c \in Range(CallsOf("setValue")) : c.skipDependencies = TRUE

NoProxiesEntry(d) ==
    LET prx == Get(d, "Proxies")
    IN  prx = NoValue \/ (IsDict(prx) /\ DOMAIN prx[2] = {})

\* C9: set_prim on a prim whose custom data has no "Proxies" entry or an
\* empty one registers no proxy and does not fail on it: when the loop over
\* the modifiers has not raised, every entry under "Modifiers" has been
\* assigned and applyAllTargets is called once, at the end.
C9_NoProxiesIsNoOp ==
    (Imported /\ NoProxiesEntry(customData[hist.prim])) =>
        /\ Len(CallsOf("add_proxy")) = 0
        /\ error \in {"none", "AttributeError:modifiers", "KeyError:modifiers"}
        /\ error = "none" =>
              LET mds == Get(customData[hist.prim], "Modifiers")
              IN  /\ IsDict(mds)
                  /\ {<<c.name, c.value>> : c \in Range(CallsOf("setValue"))}
                        = {<<<<k>>, mds[2][<<k>>]>> : k \in Range(Keys(mds[2]))}
                  /\ Len(CallsOf("applyAllTargets")) = 1
                  /\ calls[Len(calls)].fn = "applyAllTargets"

C9_Witness ==
    /\ Imported
    /\ Get(customData[hist.prim], "Proxies") = NoValue
    /\ error = "none"
    /\ Len(CallsOf("setValue")) >= 1

\* The keys write_properties writes for the provider's current state.
CurrentKeys ==
    {<<"human">>} \cup {<<"Modifiers">> \o m : m \in DOMAIN modifiers}
                  \cup {ProxyKey(proxies[i]) : i \in 1..Len(proxies)}

\* C10: no call removes a custom-data key: every key present before a step
\* is present after it, and an entry that is not one of a current modifier
\* or proxy keeps its value.
C10_NeverRemovesKey ==
    [][ \A p \in DOMAIN customData :
          \A q \in DOMAIN customData[p] :
              /\ HasKey(customData'[p], q)
              /\ (q \notin CurrentKeys /\ customData[p][q] # EmptyDict)
                    => Holds(customData'[p], q, customData[p][q]) ]_vars

MeshImported == hist.meshOp = "import"

\* The object is the last of the provider's list exported to its path.
LastWriter(i) ==
    \A j \in (i + 1)..Len(objects) :
        sanitize(objects[j].name) # sanitize(objects[i].name)

MeshPrimOf(mp, i) == mp[<<hist.meshPrim, sanitize(objects[i].name)>>]

\* The numbers of the faces the mask keeps, ascending.
Unmasked(mesh) ==
    SelectSeq([f \in 1..Len(mesh.fvert) |-> f], LAMBDA f : mesh.face_mask[f])

SomeFaceMasked(mesh) == \E f \in 1..Len(mesh.fvert) : ~mesh.face_mask[f]

\* The k-th exported index: index ((k-1) mod n) of kept face ((k-1) div n).
ExportedIndex(rows, U, n, k) == rows[U[((k - 1) \div n) + 1]][((k - 1) % n) + 1]

\* C6 as amended: for a mesh with a face masked out, the exported
\* faceVertexIndices and UVs are those of the unmasked faces alone, the
\* first vertsPerFaceForExport of each face in face order (a masked face
\* contributes no entry, though a vertex it shares with an unmasked face is
\* still referenced), and faceVertexCounts has one entry, equal to
\* vertsPerFaceForExport, per unmasked face.
C6_MaskedFacesContributeNothing ==
    MeshImported =>
        \A i \in 1..Len(objects) :
            (LastWriter(i) /\ SomeFaceMasked(objects[i])) =>
                LET mesh == objects[i]
                    n == mesh.vertsPerFaceForExport
                    U == Unmasked(mesh)
                    prim == MeshPrimOf(meshPrims, i)
                IN  /\ prim.faceVertexCounts = [f \in 1..Len(U) |-> n]
                    /\ Len(prim.faceVertexIndices) = n * Len(U)
                    /\ \A k \in 1..(n * Len(U)) :
                          prim.faceVertexIndices[k] = ExportedIndex(mesh.fvert, U, n, k)
                    /\ Len(prim.st) = n * Len(U)
                    /\ \A k \in 1..(n * Len(U)) :
                          prim.st[k] = mesh.texco[ExportedIndex(mesh.fuvs, U, n, k) + 1]

C6_Witness ==
    /\ MeshImported
    /\ \E i \in 1..Len(objects) :
          /\ LastWriter(i)
          /\ SomeFaceMasked(objects[i])
          /\ Len(Unmasked(objects[i])) >= 1
          /\ Len(MeshPrimOf(meshPrims, i).faceVertexCounts) = Len(Unmasked(objects[i]))

\* C6 as stated: for a mesh with a face masked out, no exported vertex or
\* UV index is one of a masked face, and the exported face count is the
\* number of unmasked faces.
C6_NoMaskedVertexReferenced ==
    MeshImported =>
        \A i \in 1..Len(objects) :
            (LastWriter(i) /\ SomeFaceMasked(objects[i])) =>
                LET mesh == objects[i]
                    prim == MeshPrimOf(meshPrims, i)
                IN  /\ Len(prim.faceVertexCounts) = Len(Unmasked(mesh))
                    /\ \A f \in 1..Len(mesh.fvert) :
                          ~mesh.face_mask[f] =>
                              \A n \in 1..Len(mesh.fvert[f]) :
                                  /\ mesh.fvert[f][n] \notin Range(prim.faceVertexIndices)
                                  /\ mesh.texco[mesh.fuvs[f][n] + 1] \notin Range(prim.st)

\* C7: import_meshes keeps every mesh prim and its identity; a call adds
\* exactly the prims of the provider's meshes that are not yet under the
\* path, one per sanitized mesh name, and sets the points, faceVertexCounts,
\* faceVertexIndices and normals of each (in place for one that exists); it
\* returns one path per provider mesh, in order.
C7_UpdateVsCreate ==
    [][ /\ \A q \in DOMAIN meshPrims :
              q \in DOMAIN meshPrims' /\ meshPrims'[q].id = meshPrims[q].id
        /\ \A q, r \in DOMAIN meshPrims' :
              q # r => meshPrims'[q].id # meshPrims'[r].id
        /\ (hist'.meshOp = "import" /\ objects' = objects) =>
              LET p == hist'.meshPrim
                  want == {<<p, sanitize(objects[i].name)>> : i \in 1..Len(objects)}
              IN  /\ DOMAIN meshPrims' = DOMAIN meshPrims \cup want
                  /\ Len(returned') = Len(objects)
                  /\ \A i \in 1..Len(objects) :
                        returned'[i] = <<p, sanitize(objects[i].name)>>
                  /\ \A i \in 1..Len(objects) :
                        LastWriter(i) =>
                            LET mesh == objects[i]
                                n == mesh.vertsPerFaceForExport
                                U == Unmasked(mesh)
                                prim == meshPrims'[<<p, sanitize(mesh.name)>>]
                            IN  /\ Len(prim.points) = Len(mesh.coords)
                                /\ \A v \in 1..Len(mesh.coords), c \in 1..3 :
                                      prim.points[v][c]
                                          = mesh.coords[v][c] + hist'.offset[c]
                                /\ prim.normals = mesh.normals
                                /\ prim.faceVertexCounts = [f \in 1..Len(U) |-> n]
                                /\ prim.faceVertexIndices
                                      = [k \in 1..(n * Len(U)) |->
                                            ExportedIndex(mesh.fvert, U, n, k)] ]_vars

\* An import that found one mesh prim in place and created another.
C7_Witness ==
    /\ MeshImported
    /\ hist.found # {}
    /\ Len(returned) = 2
    /\ Cardinality({q \in DOMAIN meshPrims : q[1] = hist.meshPrim})
          > Cardinality(hist.found)
    /\ hist.offset # <<0, 0, 0>>

====
